---- MODULE Spec2Model ----
(***************************************************************************)
(* Stationary initialization of the Kalman filter: the discrete Lyapunov   *)
(* equation  Sigma = T Sigma T^H + Q  and the three solvers of the         *)
(* notebook kalman_filter_initialization_stationary.ipynb                  *)
(* (direct_inverse, bilinear1, bilinear2).                                 *)
(*                                                                         *)
(* Scalars are Gaussian rationals (re + im*i)/den held in lowest terms, so *)
(* the arithmetic is exact: numpy's complex128 with rounding left out.     *)
(* Matrices are sequences of rows, indexed from 1 (numpy indexes from 0).  *)
(***************************************************************************)
EXTENDS Integers, Sequences, FiniteSets

(***************************************************************************)
(* Complex scalars                                                         *)
(***************************************************************************)
Abs(x) == IF x < 0 THEN -x ELSE x

RECURSIVE Gcd(_, _)
Gcd(a, b) == IF b = 0 THEN a ELSE Gcd(b, a % b)

\* (re + im*i)/den in lowest terms with den > 0
Cx(re, im, den) ==
  LET g == Gcd(Gcd(Abs(re), Abs(im)), Abs(den))
      s == IF den < 0 THEN -1 ELSE 1
  IN  <<(s * re) \div g, (s * im) \div g, (s * den) \div g>>

Zero == <<0, 0, 1>>
One == <<1, 0, 1>>

CAdd(x, y) == Cx(x[1] * y[3] + y[1] * x[3], x[2] * y[3] + y[2] * x[3], x[3] * y[3])
CNeg(x) == <<-x[1], -x[2], x[3]>>
CSub(x, y) == CAdd(x, CNeg(y))
CMul(x, y) == Cx(x[1] * y[1] - x[2] * y[2], x[1] * y[2] + x[2] * y[1], x[3] * y[3])
CConj(x) == <<x[1], -x[2], x[3]>>
\* 1/x for x # 0
CInv(x) == Cx(x[3] * x[1], -(x[3] * x[2]), x[1] * x[1] + x[2] * x[2])
CReal(n, d) == Cx(n, 0, d)

(***************************************************************************)
(* Dense matrices (numpy)                                                  *)
(***************************************************************************)
shape0(A) == Len(A)

\* the matrix f as a value (comparing it makes TLC evaluate the expression once)
Mat(f) == IF f = f THEN f ELSE <<>>

RECURSIVE SumTo(_, _)
\* f[1] + ... + f[n]
SumTo(f, n) == IF n = 0 THEN Zero ELSE CAdd(SumTo(f, n - 1), f[n])

eye(n) == Mat([i \in 1..n |-> [j \in 1..n |-> IF i = j THEN One ELSE Zero]])
conj(A) == Mat([i \in 1..Len(A) |-> [j \in 1..Len(A[i]) |-> CConj(A[i][j])]])
transpose(A) == Mat([i \in 1..Len(A[1]) |-> [j \in 1..Len(A) |-> A[j][i]]])
conjT(A) == transpose(conj(A))
add(A, B) == Mat([i \in 1..Len(A) |-> [j \in 1..Len(A[i]) |-> CAdd(A[i][j], B[i][j])]])
sub(A, B) == Mat([i \in 1..Len(A) |-> [j \in 1..Len(A[i]) |-> CSub(A[i][j], B[i][j])]])
scale(c, A) == Mat([i \in 1..Len(A) |-> [j \in 1..Len(A[i]) |-> CMul(c, A[i][j])]])
neg(A) == Mat([i \in 1..Len(A) |-> [j \in 1..Len(A[i]) |-> CNeg(A[i][j])]])
dot(A, B) ==
  Mat([i \in 1..Len(A) |-> [j \in 1..Len(B[1]) |->
     SumTo([k \in 1..Len(B) |-> CMul(A[i][k], B[k][j])], Len(B))]])

\* np.kron: block (i, j) of the result is A[i][j] * B
kron(A, B) ==
  LET p == Len(B)
  IN  Mat([r \in 1..(Len(A) * p) |-> [c \in 1..(Len(A) * p) |->
        CMul(A[((r - 1) \div p) + 1][((c - 1) \div p) + 1],
             B[((r - 1) % p) + 1][((c - 1) % p) + 1])]])

\* reshape in Fortran order: columns laid end to end
reshape_col_F(X) ==
  LET n == Len(X)
  IN  Mat([r \in 1..(n * n) |-> <<X[((r - 1) % n) + 1][((r - 1) \div n) + 1]>>])

\* X.reshape(X.size, 1): numpy's default C order, rows laid end to end
reshape_col(X) ==
  LET n == Len(X)
  IN  Mat([r \in 1..(n * n) |-> <<X[((r - 1) \div n) + 1][((r - 1) % n) + 1]>>])

\* v.reshape(n, n) of an (n*n) x 1 column, C order
reshape_sq(v, n) == Mat([i \in 1..n |-> [j \in 1..n |-> v[(i - 1) * n + j][1]]])

RECURSIVE GaussJordan(_, _, _)
\* Row reduction of the n x 2n matrix [A | I] from column k on; a column with
\* no pivot left means A is singular.
GaussJordan(M, n, k) ==
  IF k > n THEN [ok |-> TRUE, M |-> M]
  ELSE LET rows == {r \in k..n : M[r][k] # Zero}
       IN  IF rows = {} THEN [ok |-> FALSE, M |-> <<>>]
           ELSE LET p == CHOOSE r \in rows : \A s \in rows : r <= s
                    pinv == CInv(M[p][k])
                    prow == [j \in 1..(2 * n) |-> CMul(M[p][j], pinv)]
                    src(r) == IF r = p THEN M[k] ELSE M[r]
                    nxt == Mat([r \in 1..n |->
                             IF r = k THEN prow
                             ELSE [j \in 1..(2 * n) |->
                                    CSub(src(r)[j], CMul(src(r)[k], prow[j]))]])
                IN  GaussJordan(nxt, n, k + 1)

\* np.linalg.inv: the inverse, or LinAlgError("Singular matrix")
inv(A) ==
  LET n == Len(A)
      aug == Mat([i \in 1..n |-> [j \in 1..(2 * n) |->
                IF j <= n THEN A[i][j] ELSE IF j - n = i THEN One ELSE Zero]])
      g == GaussJordan(aug, n, 1)
  IN  IF g.ok
      THEN [ok |-> TRUE, val |-> Mat([i \in 1..n |-> [j \in 1..n |-> g.M[i][n + j]]])]
      ELSE [ok |-> FALSE, val |-> <<>>]

(***************************************************************************)
(* Outcomes of a solver call                                               *)
(*   "Sigma"       a matrix was returned, computed without perturbation    *)
(*   "Perturbed"   a matrix was returned, but LAPACK's trsyl met a singular *)
(*                 equation and solved with perturbed values (info = 1,    *)
(*                 which scipy does not turn into an exception)            *)
(*   "LinAlgError" np.linalg.inv raised LinAlgError("Singular matrix")     *)
(*   "None"        not called yet                                          *)
(***************************************************************************)
Returned(X) == [kind |-> "Sigma", val |-> X]
Perturbed == [kind |-> "Perturbed", val |-> <<>>]
LinAlgError == [kind |-> "LinAlgError", val |-> <<>>]
None == [kind |-> "None", val |-> <<>>]

\* scipy.linalg.solve_lyapunov(a, q): the X with a X + X a^H = q.  In C order
\* vec(a X) = kron(a, I) vec(X) and vec(X a^H) = kron(I, conj(a)) vec(X).
solve_lyapunov(a, q) ==
  LET n == shape0(a)
      K == add(kron(a, eye(n)), kron(eye(n), conj(a)))
      Ki == inv(K)
  IN  IF Ki.ok THEN Returned(reshape_sq(dot(Ki.val, reshape_col(q)), n))
      ELSE Perturbed

(***************************************************************************)
(* The notebook's functions                                                *)
(***************************************************************************)
Companion(c, m) ==
  Mat([i \in 1..m |-> [j \in 1..m |->
     IF i = 1 /\ j = 1 THEN c ELSE IF i = j + 1 THEN One ELSE Zero]])

\* state(m): T[0,0] = 0.6 + 1j, ones below the diagonal, Q = I
state(m) == [T |-> Companion(Cx(3, 5, 5), m), Q |-> eye(m)]

\* the formula of the notebook's text, kron(T, T) without the conjugate
direct_inverse_kronTT(A, Qm) ==
  LET n == shape0(A)
      Mi == inv(sub(eye(n * n), kron(A, A)))
  IN  IF Mi.ok THEN Returned(reshape_sq(dot(Mi.val, reshape_col(Qm)), n))
      ELSE LinAlgError

\* I + kron(A, conj(A)): a sign slip
direct_inverse_plus(A, Qm) ==
  LET n == shape0(A)
      Mi == inv(add(eye(n * n), kron(A, conj(A))))
  IN  IF Mi.ok THEN Returned(reshape_sq(dot(Mi.val, reshape_col(Qm)), n))
      ELSE LinAlgError

direct_inverse(A, Qm) ==
  LET n == shape0(A)
      Mi == inv(sub(eye(n * n), kron(A, conj(A))))
  IN  IF Mi.ok THEN Returned(reshape_sq(dot(Mi.val, reshape_col(Qm)), n))
      ELSE LinAlgError

\* the 0.5 of the back-transformation left out
bilinear1_nohalf(A0, Qm) ==
  LET A == conjT(A0)
      n == shape0(A)
      I == eye(n)
      AmI == inv(sub(A, I))
  IN  IF ~AmI.ok THEN LinAlgError
      ELSE LET B == dot(AmI.val, add(A, I))
               res == solve_lyapunov(conjT(B), neg(Qm))
           IN  IF res.kind # "Sigma" THEN res
               ELSE Returned(dot(dot(conjT(sub(B, I)), res.val), sub(B, I)))

\* (B - eye).T in place of (B - eye).conj().T
bilinear1_noconj(A0, Qm) ==
  LET A == conjT(A0)
      n == shape0(A)
      I == eye(n)
      AmI == inv(sub(A, I))
  IN  IF ~AmI.ok THEN LinAlgError
      ELSE LET B == dot(AmI.val, add(A, I))
               res == solve_lyapunov(conjT(B), neg(Qm))
           IN  IF res.kind # "Sigma" THEN res
               ELSE Returned(scale(CReal(1, 2),
                      dot(dot(transpose(sub(B, I)), res.val), sub(B, I))))

\* inv(A + eye) in place of inv(A - eye)
bilinear1_plus(A0, Qm) ==
  LET A == conjT(A0)
      n == shape0(A)
      I == eye(n)
      AmI == inv(add(A, I))
  IN  IF ~AmI.ok THEN LinAlgError
      ELSE LET B == dot(AmI.val, add(A, I))
               res == solve_lyapunov(conjT(B), neg(Qm))
           IN  IF res.kind # "Sigma" THEN res
               ELSE Returned(scale(CReal(1, 2),
                      dot(dot(conjT(sub(B, I)), res.val), sub(B, I))))

bilinear1(A0, Qm) ==
  LET A == conjT(A0)
      n == shape0(A)
      I == eye(n)
      AmI == inv(sub(A, I))
  IN  IF ~AmI.ok THEN LinAlgError
      ELSE LET B == dot(AmI.val, add(A, I))
               res == solve_lyapunov(conjT(B), neg(Qm))
           IN  IF res.kind # "Sigma" THEN res
               ELSE Returned(scale(CReal(1, 2),
                      dot(dot(conjT(sub(B, I)), res.val), sub(B, I))))

\* the factor 2 of C left out
bilinear2_nofactor(A0, Qm) ==
  LET A == conjT(A0)
      n == shape0(A)
      I == eye(n)
      AI_inv == inv(add(A, I))
      AHI_inv == inv(add(conjT(A), I))
  IN  IF ~AI_inv.ok \/ ~AHI_inv.ok THEN LinAlgError
      ELSE LET B == dot(sub(A, I), AI_inv.val)
               C == dot(dot(AHI_inv.val, Qm), AI_inv.val)
           IN  solve_lyapunov(conjT(B), neg(C))

\* bilinear1's transform: inv(A - eye) and B = inv(A - eye).dot(A + eye)
bilinear2_minus(A0, Qm) ==
  LET A == conjT(A0)
      n == shape0(A)
      I == eye(n)
      AI_inv == inv(sub(A, I))
      AHI_inv == inv(sub(conjT(A), I))
  IN  IF ~AI_inv.ok \/ ~AHI_inv.ok THEN LinAlgError
      ELSE LET B == dot(add(A, I), AI_inv.val)
               C == scale(CReal(2, 1), dot(dot(AHI_inv.val, Qm), AI_inv.val))
           IN  solve_lyapunov(conjT(B), neg(C))

bilinear2(A0, Qm) ==
  LET A == conjT(A0)
      n == shape0(A)
      I == eye(n)
      AI_inv == inv(add(A, I))
      AHI_inv == inv(add(conjT(A), I))
  IN  IF ~AI_inv.ok \/ ~AHI_inv.ok THEN LinAlgError
      ELSE LET B == dot(sub(A, I), AI_inv.val)
               C == scale(CReal(2, 1), dot(dot(AHI_inv.val, Qm), AI_inv.val))
           IN  solve_lyapunov(conjT(B), neg(C))

(***************************************************************************)
(* The models (T, Q) the solvers are called on                             *)
(***************************************************************************)
MaxNum == 2
MaxDim == 3
ExampleDim == 3

Dens == {1, 2}
Scalars == {Cx(a, b, d) : a \in (-MaxNum)..MaxNum, b \in (-MaxNum)..MaxNum, d \in Dens}
ImagUnit == Cx(0, 1, 1)

\* m = 1: any scalar T; Q = 1 (a variance) or 1 + 1j (not Hermitian)
ScalarModels ==
  {[T |-> <<<<t>>>>, Q |-> <<<<q>>>>] : t \in Scalars, q \in {One, Cx(1, 1, 1)}}

\* m = 2: lower triangular T, so that its eigenvalues are its diagonal
Diag2 ==
  {CReal(1, 2), Cx(1, 1, 2), One, CReal(-1, 1), Cx(0, 2, 1), Cx(0, 1, 2), Cx(0, -1, 2)}
HermQ2 == <<<<CReal(2, 1), ImagUnit>>, <<CNeg(ImagUnit), One>>>>
PairModels ==
  {[T |-> <<<<a, Zero>>, <<s, b>>>>, Q |-> q] :
     a \in Diag2, b \in Diag2, s \in {Zero, One}, q \in {eye(2), HermQ2}}

\* companion matrices like state(m)'s, with other roots
Roots == {CReal(1, 2), Cx(1, 1, 2), CReal(-1, 1)}
CompanionModels ==
  {[T |-> Companion(c, m), Q |-> eye(m)] : c \in Roots, m \in 2..MaxDim}

Models == ScalarModels \cup PairModels \cup CompanionModels

VARIABLES T, Q, sol1, sol3, sol4

vars == <<T, Q, sol1, sol3, sol4>>

\* "T, Q = state(3)", nothing solved yet
Init ==
  /\ T = state(ExampleDim).T
  /\ Q = state(ExampleDim).Q
  /\ sol1 = None /\ sol3 = None /\ sol4 = None

\* T, Q = state(m): a new model; the solutions of the previous one are dropped
Fixture ==
  \E m \in 1..MaxDim :
    /\ T' = state(m).T
    /\ Q' = state(m).Q
    /\ sol1' = None /\ sol3' = None /\ sol4' = None

\* the caller supplies another model
SetModel ==
  \E p \in Models :
    /\ T' = p.T
    /\ Q' = p.Q
    /\ sol1' = None /\ sol3' = None /\ sol4' = None

\* sol1 = direct_inverse(T, Q)
Call_direct_inverse ==
  /\ sol1' = direct_inverse(T, Q)
  /\ UNCHANGED <<T, Q, sol3, sol4>>

\* sol3 = bilinear1(T, Q)
Call_bilinear1 ==
  /\ sol3' = bilinear1(T, Q)
  /\ UNCHANGED <<T, Q, sol1, sol4>>

\* sol4 = bilinear2(T, Q)
Call_bilinear2 ==
  /\ sol4' = bilinear2(T, Q)
  /\ UNCHANGED <<T, Q, sol1, sol3>>

Next ==
  \/ Fixture
  \/ SetModel
  \/ Call_direct_inverse
  \/ Call_bilinear1
  \/ Call_bilinear2

Spec == Init /\ [][Next]_vars

(***************************************************************************)
(* Notions the properties are stated in                                    *)
(***************************************************************************)
\* The eigenvalues of a triangular matrix are its diagonal entries.
IsLowerTriangular(A) ==
  \A i \in 1..Len(A) : \A j \in 1..Len(A) : i < j => A[i][j] = Zero

eigvals(A) == {A[i][i] : i \in 1..Len(A)}

\* |z|^2 against 1, for z = (re + im*i)/den
ModBelow1(z) == z[1] * z[1] + z[2] * z[2] < z[3] * z[3]
ModIs1(z) == z[1] * z[1] + z[2] * z[2] = z[3] * z[3]

Stable(A) == \A z \in eigvals(A) : ModBelow1(z)
Unstable(A) == \E z \in eigvals(A) : ~ModBelow1(z)

IsHermitian(X) ==
  \A i \in 1..Len(X) : \A j \in 1..Len(X) : X[i][j] = CConj(X[j][i])

RECURSIVE SortedSeq(_)
SortedSeq(S) ==
  IF S = {} THEN <<>>
  ELSE LET m == CHOOSE x \in S : \A y \in S : x <= y
       IN  <<m>> \o SortedSeq(S \ {m})

\* the principal submatrix on the index set S
Principal(X, S) ==
  LET ix == SortedSeq(S)
  IN  [i \in 1..Len(ix) |-> [j \in 1..Len(ix) |-> X[ix[i]][ix[j]]]]

RECURSIVE Det(_)
\* Laplace expansion along the first row
Det(X) ==
  IF Len(X) = 0 THEN One
  ELSE LET n == Len(X)
           Minor(c) == [i \in 1..(n - 1) |-> [j \in 1..(n - 1) |->
                          X[i + 1][IF j < c THEN j ELSE j + 1]]]
           term(c) == CMul(IF c % 2 = 1 THEN One ELSE CNeg(One),
                           CMul(X[1][c], Det(Minor(c))))
       IN  SumTo([c \in 1..n |-> term(c)], n)

\* Hermitian with every principal minor >= 0
IsPSD(X) ==
  /\ IsHermitian(X)
  /\ \A S \in (SUBSET (1..Len(X))) \ {{}} :
       LET d == Det(Principal(X, S)) IN d[2] = 0 /\ d[1] >= 0

\* X = A X A^H + Qm
Solves(A, Qm, X) == X = add(dot(dot(A, X), conjT(A)), Qm)

Sols == {sol1, sol3, sol4}
IsReturn(s) == s.kind \in {"Sigma", "Perturbed"}
AllSigma == \A s \in Sols : s.kind = "Sigma"

TypeOK ==
  /\ IsLowerTriangular(T)
  /\ Len(Q) = Len(T)
  /\ \A s \in Sols : s.kind \in {"None", "Sigma", "Perturbed", "LinAlgError"}

(***************************************************************************)
(* Properties                                                              *)
(***************************************************************************)
\* C1: for a stable T and a Hermitian positive semi-definite Q, whatever
\* matrix direct_inverse, bilinear1 or bilinear2 returns is the Sigma with
\* Sigma = T Sigma T^H + Q.
C1_EquationSatisfied ==
  (Stable(T) /\ IsPSD(Q)) =>
    \A s \in Sols : IsReturn(s) => (s.kind = "Sigma" /\ Solves(T, Q, s.val))

C1_Witness ==
  /\ Stable(T) /\ IsPSD(Q)
  /\ Len(T) >= 2 /\ T[1][1][2] # 0
  /\ AllSigma

\* C2: whenever all three methods return a matrix for the same (T, Q), the
\* three matrices are equal.
C2_MethodsAgree ==
  (\A s \in Sols : IsReturn(s)) =>
    (AllSigma /\ sol1.val = sol3.val /\ sol3.val = sol4.val)

C2_Witness ==
  /\ T = state(ExampleDim).T /\ Q = state(ExampleDim).Q
  /\ AllSigma

\* C3 as claimed: if T has an eigenvalue of modulus >= 1, every method ends in
\* an error and none returns a matrix.
C3_UnstableAlwaysFails ==
  Unstable(T) => \A s \in Sols : s.kind \in {"None", "LinAlgError"}

\* C3 amended: if T has an eigenvalue of modulus exactly 1, direct_inverse ends
\* in an error; if T has the eigenvalue 1, bilinear1 ends in an error too; on
\* the fixture state(m), whose T[0,0] = 0.6+1j has modulus > 1, every method
\* returns a matrix without an error.
C3_FailsOnUnitModulus ==
  /\ (\E z \in eigvals(T) : ModIs1(z)) => sol1.kind \in {"None", "LinAlgError"}
  /\ One \in eigvals(T) => sol3.kind \in {"None", "LinAlgError"}
  /\ (\E m \in 1..MaxDim : T = state(m).T /\ Q = state(m).Q) =>
       \A s \in Sols : s.kind \in {"None", "Sigma"}

C3_Witness ==
  /\ T = <<<<One>>>> /\ Q = <<<<One>>>>
  /\ sol1.kind = "LinAlgError" /\ sol3.kind = "LinAlgError"
  /\ IsReturn(sol4)

\* C4: for m = 1, T = [0.5], Q = [1], each method returns Sigma = [4/3].
C4_ScalarScenario ==
  (T = <<<<CReal(1, 2)>>>> /\ Q = <<<<One>>>>) =>
    \A s \in Sols : s.kind # "None" => s = Returned(<<<<CReal(4, 3)>>>>)

C4_Witness ==
  /\ T = <<<<CReal(1, 2)>>>> /\ Q = <<<<One>>>>
  /\ \A s \in Sols : s.kind # "None"

C7_SingularIffPlainProduct ==
  sol1.kind # "None" =>
    (sol1.kind = "LinAlgError" <=>
       \E a \in eigvals(T) : \E b \in eigvals(T) : CMul(a, b) = One)

\* C7 amended: direct_inverse ends in the singular-matrix error exactly when
\* two eigenvalues of T (possibly the same one) satisfy a * conj(b) = 1.
C7_SingularIffConjProduct ==
  sol1.kind # "None" =>
    (sol1.kind = "LinAlgError" <=>
       \E a \in eigvals(T) : \E b \in eigvals(T) : CMul(a, CConj(b)) = One)

C7_Witness ==
  /\ sol1.kind = "LinAlgError"
  /\ Len(T) = 2
  /\ \A a \in eigvals(T) : ~ModIs1(a)

\* C8 as claimed: if T has the eigenvalue 1, bilinear1 and bilinear2 both end
\* in the error of a singular inversion.
C8_BothFailOnEigenvalueOne ==
  One \in eigvals(T) =>
    /\ sol3.kind \in {"None", "LinAlgError"}
    /\ sol4.kind \in {"None", "LinAlgError"}

\* C8 amended: bilinear1 ends in the error of its inversion exactly when T has
\* the eigenvalue 1 (it inverts A - I); bilinear2 ends in the error of its
\* inversion exactly when T has the eigenvalue -1 (it inverts A + I), and so
\* not for the eigenvalue 1.
C8_TransformSingularity ==
  /\ sol3.kind # "None" => (sol3.kind = "LinAlgError" <=> One \in eigvals(T))
  /\ sol4.kind # "None" =>
       (sol4.kind = "LinAlgError" <=> CNeg(One) \in eigvals(T))

C8_Witness ==
  /\ One \in eigvals(T) /\ CNeg(One) \notin eigvals(T)
  /\ sol3.kind = "LinAlgError"
  /\ IsReturn(sol4)

\* C10 as claimed: the direct method stacks Q column by column, Q[i][j] at
\* position j*m + i of q (counting from 0).
C10_ColumnMajorVec ==
  sol1.kind = "Sigma" =>
    LET m == Len(Q)
        q == reshape_col(Q)
    IN  \A i \in 1..m : \A j \in 1..m : q[(j - 1) * m + i][1] = Q[i][j]

\* C10 amended: the direct method stacks Q row by row, Q[i][j] at position
\* i*m + j of q (counting from 0), pairs it with M = I - kron(T, conj(T)), and
\* reshapes the solved vector by the same convention: M vec(Sigma) = q for the
\* returned Sigma, and Sigma = T Sigma T^H + Q.
C10_RowMajorVec ==
  sol1.kind = "Sigma" =>
    LET m == Len(Q)
        q == reshape_col(Q)
        M == sub(eye(m * m), kron(T, conj(T)))
        v == reshape_col(sol1.val)
    IN  /\ \A i \in 1..m : \A j \in 1..m : q[(i - 1) * m + j][1] = Q[i][j]
        /\ \A i \in 1..m : \A j \in 1..m : v[(i - 1) * m + j][1] = sol1.val[i][j]
        /\ dot(M, v) = q
        /\ reshape_sq(v, m) = sol1.val
        /\ Solves(T, Q, sol1.val)

C10_Witness ==
  /\ sol1.kind = "Sigma"
  /\ Len(Q) = 2 /\ Q # transpose(Q)
  /\ T[1][1][2] # 0 /\ T[2][1] # Zero
====
